---------------------------- MODULE Spec2Model ----------------------------
(***************************************************************************)
(* Model of SplitTextComponent ("Split Text (Oracle 23ai)"),               *)
(* components/splittext/oracledb_splittext.py.                             *)
(*                                                                         *)
(* One behaviour is one invocation of split_text(): the separator is       *)
(* resolved, the input is normalised to a list of documents, the documents *)
(* are split by CharacterTextSplitter and every chunk is mapped to an      *)
(* Oracle PDFCOLLECTION record.                                            *)
(*                                                                         *)
(* Python strings are sequences of one-character strings over ASCII.  A    *)
(* Python dict is a function whose DOMAIN is its key set.                  *)
(***************************************************************************)
EXTENDS Integers, Sequences, FiniteSets, TLC

VARIABLES
    data_inputs,     \* self.data_inputs
    separator,       \* self.separator
    text_key,        \* self.text_key
    keep_separator,  \* self.keep_separator (one of the dropdown options)
    chunk_size,      \* self.chunk_size
    chunk_overlap,   \* self.chunk_overlap
    pc,              \* position of the invocation
    calls,           \* number of split_text_base activations so far
    branches,        \* the isinstance branch each activation took, in order
    resolved,        \* local `separator` of the running activation
    documents,       \* local `documents`
    keep_sep,        \* local `keep_sep`, the value handed to the splitter
    splitter_calls,  \* number of CharacterTextSplitter constructions
    split_docs,      \* the chunks returned by split_text_base
    chunk_doc,       \* history: for each chunk, the index of its document
    oracle_data,     \* the records returned by _docs_to_oracle_data
    uuid_ctr,        \* number of uuid.uuid4() draws so far
    error,           \* the exception that ended the invocation, or NoError
    input0           \* history: data_inputs as handed to split_text

vars == << data_inputs, separator, text_key, keep_separator, chunk_size,
           chunk_overlap, pc, calls, branches, resolved, documents, keep_sep,
           splitter_calls, split_docs, chunk_doc, oracle_data, uuid_ctr,
           error, input0 >>

----------------------------------------------------------------------------
(* Bounds *)

\* longest separator string drawn by SepSpec
MaxSepLen == 3

\* most elements of a list input / rows of a DataFrame input
MaxDocs == 2

\* most nested activations of split_text_base the model follows
MaxCalls == 3

----------------------------------------------------------------------------
(* Characters and strings *)

NL == "\n"
TAB == "\t"
BSL == "\\"
CR == "\r"
FF == "\f"
\* the control characters U+000B and U+001C to U+001F, written raw
VT == ""
FS == ""
GS == ""
RS == ""
US == ""

\* the ASCII characters str.strip() removes (those with str.isspace()).
\* Python also strips the non-ASCII spaces U+0085, U+00A0, U+1680,
\* U+2000-U+200A, U+2028, U+2029, U+202F, U+205F and U+3000, which no
\* string of this module can hold
Whitespace == {" ", TAB, NL, VT, FF, CR, FS, GS, RS, US}

RECURSIVE SeqsUpTo(_, _)
\* all sequences over S of length at most n
SeqsUpTo(S, n) ==
    IF n = 0 THEN {<< >>}
    ELSE LET shorter == SeqsUpTo(S, n - 1)
         IN  shorter \cup {Append(s, c) : s \in shorter, c \in S}

\* s[i..] has p as a prefix
StartsWithAt(s, i, p) ==
    /\ i + Len(p) - 1 <= Len(s)
    /\ \A k \in 1..Len(p) : s[i + k - 1] = p[k]

RECURSIVE Replace(_, _, _)
\* str.replace(old, new) for a non-empty old: leftmost non-overlapping matches
Replace(s, old, new) ==
    IF s = << >> THEN << >>
    ELSE IF StartsWithAt(s, 1, old)
         THEN new \o Replace(SubSeq(s, Len(old) + 1, Len(s)), old, new)
         ELSE << s[1] >> \o Replace(Tail(s), old, new)

RECURSIVE LStrip(_)
LStrip(s) ==
    IF s # << >> /\ s[1] \in Whitespace THEN LStrip(Tail(s)) ELSE s

RECURSIVE RStrip(_)
RStrip(s) ==
    IF s # << >> /\ s[Len(s)] \in Whitespace
    THEN RStrip(SubSeq(s, 1, Len(s) - 1)) ELSE s

\* str.strip()
Strip(s) == RStrip(LStrip(s))

RECURSIVE Join(_, _)
\* sep.join(parts)
Join(parts, sep) ==
    IF parts = << >> THEN << >>
    ELSE IF Len(parts) = 1 THEN parts[1]
    ELSE parts[1] \o sep \o Join(Tail(parts), sep)

RECURSIVE Concat(_)
\* concatenation of a sequence of sequences
Concat(ss) == IF ss = << >> THEN << >> ELSE ss[1] \o Concat(Tail(ss))

----------------------------------------------------------------------------
(* Separator resolution: lines 118-128 *)

\* _fix_separator without its "/t" case
_fix_separator_no_tab(sep) ==
    IF sep = << "/", "n" >> THEN << NL >> ELSE sep

\* SplitTextComponent._fix_separator
_fix_separator(sep) ==
    IF sep = << "/", "n" >> THEN << NL >>
    ELSE IF sep = << "/", "t" >> THEN << TAB >>
    ELSE sep

\* lfx.utils.util.unescape_string: s.replace("\\n", "\n")
unescape_string(s) == Replace(s, << BSL, "n" >>, << NL >>)

\* lines 127-128
ResolveSeparator(sep) == unescape_string(_fix_separator(sep))

----------------------------------------------------------------------------
(* Python values handed to the splitter as keep_separator *)

PyFalse == [py |-> "bool", val |-> "False"]
PyTrue == [py |-> "bool", val |-> "True"]
PyStr(s) == [py |-> "str", val |-> s]

\* a local that is not bound yet
Unbound == [py |-> "unbound", val |-> ""]

\* bool(v) for the values above: False is falsy, True and every non-empty
\* string are truthy
Truthy(v) == v # PyFalse /\ v # PyStr("")

\* options of the keep_separator dropdown, line 67
KeepSeparatorOptions == {"False", "True", "Start", "End"}

\* str.lower() on the dropdown options
Lower(s) ==
    CASE s = "False" -> "false"
      [] s = "True" -> "true"
      [] s = "Start" -> "start"
      [] s = "End" -> "end"
      [] OTHER -> s

\* lines 164-170: 'False'/'True' become booleans, every other string is
\* handed on unchanged (not lower-cased)
KeepSep(option) ==
    IF Lower(option) = "false" THEN PyFalse
    ELSE IF Lower(option) = "true" THEN PyTrue
    ELSE PyStr(option)

----------------------------------------------------------------------------
(* langchain_text_splitters.CharacterTextSplitter, as called at lines      *)
(* 172-178 (is_separator_regex = False, strip_whitespace = True,           *)
(* length_function = len, add_start_index = False)                         *)

RECURSIVE ReSplitFrom(_, _, _)
\* re.split(re.escape(sep), s) for a non-empty sep; cur is the piece so far
ReSplitFrom(s, sep, cur) ==
    IF s = << >> THEN << cur >>
    ELSE IF StartsWithAt(s, 1, sep)
         THEN << cur >> \o ReSplitFrom(SubSeq(s, Len(sep) + 1, Len(s)), sep, << >>)
         ELSE ReSplitFrom(Tail(s), sep, Append(cur, s[1]))

ReSplit(s, sep) == ReSplitFrom(s, sep, << >>)

\* re.split("(" + sep + ")", s): pieces with the separators between them,
\* always of odd length
ReSplitKeep(s, sep) ==
    LET pieces == ReSplit(s, sep)
    IN  [i \in 1..(2 * Len(pieces) - 1) |->
            IF i % 2 = 1 THEN pieces[(i + 1) \div 2] ELSE sep]

NonEmptyStr(s) == s # << >>

\* the policy _split_text_with_regex applies for a keep_separator value:
\* only the exact string "end" selects keep-at-chunk-end, every other truthy
\* value keeps the separator at the chunk start
SplitterPolicy(keep) ==
    IF ~Truthy(keep) THEN "discard"
    ELSE IF keep = PyStr("end") THEN "end" ELSE "start"

\* langchain_text_splitters.character._split_text_with_regex
_split_text_with_regex(text, sep, keep) ==
    LET splits ==
          IF sep # << >>
          THEN IF Truthy(keep)
               THEN LET splits_ == ReSplitKeep(text, sep)
                        n == Len(splits_)
                        \* Python range(0, n - 1, 2) / range(1, n, 2), 0-based
                        pairs == IF keep = PyStr("end")
                                 THEN [j \in 1..((n - 1) \div 2) |->
                                         splits_[2 * j - 1] \o splits_[2 * j]]
                                 ELSE [j \in 1..((n - 1) \div 2) |->
                                         splits_[2 * j] \o splits_[2 * j + 1]]
                        pairs2 == IF n % 2 = 0
                                  THEN Append(pairs, splits_[n]) ELSE pairs
                    IN  IF keep = PyStr("end")
                        THEN Append(pairs2, splits_[n])
                        ELSE << splits_[1] >> \o pairs2
               ELSE ReSplit(text, sep)
          ELSE [i \in 1..Len(text) |-> << text[i] >>]
    IN  SelectSeq(splits, NonEmptyStr)

\* TextSplitter._join_docs; << >> stands for None
_join_docs(docs, sep) == Strip(Join(docs, sep))

\* separator length counted when current_doc holds more than `more` pieces
SepLenIf(cur, more, seplen) == IF Len(cur) > more THEN seplen ELSE 0

RECURSIVE PopWhile(_, _, _, _, _, _)
\* the inner while loop of TextSplitter._merge_splits
PopWhile(cur, total, len_, seplen, size, overlap) ==
    IF /\ cur # << >>
       /\ \/ total > overlap
          \/ (total + len_ + SepLenIf(cur, 0, seplen) > size /\ total > 0)
    THEN PopWhile(Tail(cur),
                  total - (Len(cur[1]) + SepLenIf(cur, 1, seplen)),
                  len_, seplen, size, overlap)
    ELSE [cur |-> cur, total |-> total]

RECURSIVE MergeLoop(_, _, _, _, _, _)
\* the for loop of TextSplitter._merge_splits over splits[i..]
MergeLoop(splits, i, st, sep, size, overlap) ==
    IF i > Len(splits)
    THEN LET doc == _join_docs(st.cur, sep)
         IN  IF doc # << >> THEN Append(st.docs, doc) ELSE st.docs
    ELSE LET d == splits[i]
             len_ == Len(d)
             seplen == Len(sep)
             over == st.total + len_ + SepLenIf(st.cur, 0, seplen) > size
             doc == _join_docs(st.cur, sep)
             docs1 == IF over /\ st.cur # << >> /\ doc # << >>
                      THEN Append(st.docs, doc) ELSE st.docs
             popped == IF over /\ st.cur # << >>
                       THEN PopWhile(st.cur, st.total, len_, seplen, size, overlap)
                       ELSE [cur |-> st.cur, total |-> st.total]
             cur2 == Append(popped.cur, d)
         IN  MergeLoop(splits, i + 1,
                       [docs |-> docs1, cur |-> cur2,
                        total |-> popped.total + len_ + SepLenIf(cur2, 1, seplen)],
                       sep, size, overlap)

\* TextSplitter._merge_splits
_merge_splits(splits, sep, size, overlap) ==
    MergeLoop(splits, 1, [docs |-> << >>, cur |-> << >>, total |-> 0],
              sep, size, overlap)

\* CharacterTextSplitter.split_text
splitter_split_text(text, sep, keep, size, overlap) ==
    _merge_splits(_split_text_with_regex(text, sep, keep),
                  IF Truthy(keep) THEN << >> ELSE sep, size, overlap)

RECURSIVE create_documents(_, _, _, _, _, _)
\* TextSplitter.split_documents / create_documents over docs[i..]: every
\* chunk of document i carries its own copy of document i's metadata.
\* `doc` notes i and is no part of the langchain Document
create_documents(docs, i, sep, keep, size, overlap) ==
    IF i > Len(docs) THEN << >>
    ELSE LET chunks == splitter_split_text(docs[i].page_content, sep, keep, size, overlap)
         IN  [k \in 1..Len(chunks) |->
                [page_content |-> chunks[k], metadata |-> docs[i].metadata,
                 doc |-> i]]
             \o create_documents(docs, i + 1, sep, keep, size, overlap)

\* splitter.split_documents(documents), line 178
split_documents(docs, sep, keep, size, overlap) ==
    LET tagged == create_documents(docs, 1, sep, keep, size, overlap)
    IN  [k \in 1..Len(tagged) |->
            [page_content |-> tagged[k].page_content,
             metadata |-> tagged[k].metadata]]

\* for each chunk of split_documents, the index of the document it is cut from
ChunkOrigins(docs, sep, keep, size, overlap) ==
    LET tagged == create_documents(docs, 1, sep, keep, size, overlap)
    IN  [k \in 1..Len(tagged) |-> tagged[k].doc]

\* TextSplitter.__init__ raises ValueError for an overlap above the size
SplitterRejects(size, overlap) == overlap > size

----------------------------------------------------------------------------
(* Python dicts *)

EmptyDict == << >>

\* d.get(k, default)
DictGet(d, k, default) == IF k \in DOMAIN d THEN d[k] ELSE default

\* d without key k (the dict left by d.pop(k, ...))
DictPop(d, k) == [x \in DOMAIN d \ {k} |-> d[x]]

\* d after d[k] = v
DictSet(d, k, v) == [x \in DOMAIN d \cup {k} |-> IF x = k THEN v ELSE d[x]]

----------------------------------------------------------------------------
(* lfx.schema: Data, Message, DataFrame, as used at lines 130-155 *)

NoneValue == [type |-> "NoneType"]
Data(tk, d) == [type |-> "Data", text_key |-> tk, data |-> d]
PlainStr(v) == [type |-> "str", value |-> v]
Message(t) == [type |-> "Message", text_key |-> "text", data |-> ("text" :> t)]
DataFrame(cols, rows) ==
    [type |-> "DataFrame", text_key |-> "text", columns |-> cols, rows |-> rows]
List(items) == [type |-> "list", items |-> items]

\* Data.default_value / DataFrame._default_value
DefaultValue == << >>

\* Data.to_lc_document: the text_key entry is popped off a copy of data and
\* becomes page_content, the rest is the metadata
to_lc_document(rec) ==
    [page_content |-> DictGet(rec.data, rec.text_key, DefaultValue),
     metadata |-> DictPop(rec.data, rec.text_key)]

\* DataFrame.to_lc_documents: the same, row by row, with the frame's text_key
to_lc_documents(df) ==
    [i \in 1..Len(df.rows) |->
        [page_content |-> DictGet(df.rows[i], df.text_key, DefaultValue),
         metadata |-> DictPop(df.rows[i], df.text_key)]]

\* Message.to_data: Data(data=self.data), text_key left at its default
to_data(m) == Data("text", m.data)

\* isinstance(x, Data)
IsData(x) == x.type = "Data"

\* a check for None only, in place of the truth value
TruthyInputNotNone(x) == x.type # "NoneType"

\* bool(self.data_inputs) at line 145: None and the empty list are falsy
TruthyInput(x) ==
    CASE x.type = "NoneType" -> FALSE
      [] x.type = "list" -> Len(x.items) > 0
      [] OTHER -> TRUE

\* line 155: [input_.to_lc_document() for input_ in data_inputs
\*            if isinstance(input_, Data)]
ListDocuments(items) ==
    LET kept == SelectSeq(items, IsData)
    IN  [i \in 1..Len(kept) |-> to_lc_document(kept[i])]

----------------------------------------------------------------------------
(* Record mapping: lines 77-116 *)

\* the n-th value drawn from uuid.uuid4(); draws never repeat
Uuid(n) == << "uuid4", n >>

\* SplitTextComponent._generate_id after ctr earlier draws
_generate_id(ctr) == Uuid(ctr + 1)

\* lines 97-99: the chunk's own metadata dict gets chunk_index and source_id.
\* fresh is the id the second _generate_id call of the iteration returned
\* (the default of dict.get is evaluated whether or not it is used)
ChunkMetadata(md, idx, fresh) ==
    DictSet(DictSet(md, "chunk_index", idx),
            "source_id", DictGet(md, "source_id", fresh))

\* the record with the chunk's own id as the default of its source_id
OracleRecordSharedId(doc, idx, ctr) ==
    [id |-> _generate_id(ctr),
     text |-> doc.page_content,
     embedding |-> "None",
     source_metadata |-> ChunkMetadata(doc.metadata, idx, _generate_id(ctr))]

\* lines 103-113, without the metadata JSON text and the created_at stamp
OracleRecord(doc, idx, ctr) ==
    [id |-> _generate_id(ctr),
     text |-> doc.page_content,
     embedding |-> "None",
     source_metadata |-> ChunkMetadata(doc.metadata, idx, _generate_id(ctr + 1))]

\* the mapping with chunks of equal text emitted once only
_docs_to_oracle_data_dedup(docs, ctr) ==
    LET first == {k \in 1..Len(docs) :
                    \A j \in 1..(k - 1) : docs[j].page_content # docs[k].page_content}
        nth(i) == CHOOSE k \in first : Cardinality({j \in first : j < k}) = i - 1
    IN  [i \in 1..Cardinality(first) |->
            OracleRecord(docs[nth(i)], nth(i) - 1, ctr + 2 * (nth(i) - 1))]

\* SplitTextComponent._docs_to_oracle_data: idx enumerates the whole list of
\* chunks from 0; every iteration draws two uuids
_docs_to_oracle_data(docs, ctr) ==
    [k \in 1..Len(docs) |-> OracleRecord(docs[k], k - 1, ctr + 2 * (k - 1))]

\* the chunks after the loop: doc.metadata is updated in place
DocsAfterMapping(docs, ctr) ==
    [k \in 1..Len(docs) |->
        [page_content |-> docs[k].page_content,
         metadata |-> ChunkMetadata(docs[k].metadata, k - 1,
                                    _generate_id(ctr + 2 * (k - 1) + 1))]]

----------------------------------------------------------------------------
(* Inputs of one invocation *)

\* values of the "text" and "body" fields
TextVals == {<< "a" >>, << "a", ".", "b" >>}
BodyVals == {<< "c", ".", "d" >>}

\* a source_id the caller put into a record before the invocation
GivenSourceId == << "given", 1 >>

TextKeys == {"text", "body"}

\* the data dicts of the input records: "text" always present, "body" and
\* "source_id" optional
DataDicts ==
    {("text" :> t) @@ b @@ sid :
        t \in TextVals,
        b \in {EmptyDict} \cup {("body" :> v) : v \in BodyVals},
        sid \in {EmptyDict, ("source_id" :> GivenSourceId)}}

\* Data records, each with the text_key it carries before the invocation
DataPool == {Data(tk, d) : tk \in TextKeys, d \in DataDicts}

\* elements of a list input: Data records and one element that is no Data
ItemPool == DataPool \cup {PlainStr(<< "a" >>)}

\* rows of a DataFrame with the given columns
RowPool(cols) ==
    IF "body" \in cols
    THEN {("text" :> t) @@ ("body" :> v) : t \in TextVals, v \in BodyVals}
    ELSE {("text" :> t) : t \in TextVals}

DataFramesOver(cols) ==
    {DataFrame(cols, rows) :
        rows \in UNION {[1..n -> RowPool(cols)] : n \in 0..MaxDocs}}

DataFramePool == DataFramesOver({"text"}) \cup DataFramesOver({"text", "body"})

InputPool ==
    {NoneValue}
    \cup {List(items) : items \in UNION {[1..n -> ItemPool] : n \in 0..MaxDocs}}
    \cup DataPool
    \cup {Message(t) : t \in TextVals}
    \cup DataFramePool

\* (chunk_size, chunk_overlap) pairs; the last one is rejected by the splitter
ChunkConfigs == {<< 1, 0 >>, << 3, 1 >>, << 1, 2 >>}

\* characters of the separators drawn by SepSpec
SepChars == {"/", "n", "t", BSL, "."}

NoError == [exc |-> "", msg |-> ""]
Raised(exc, msg) == [exc |-> exc, msg |-> msg]

\* state at the entry of split_text, all locals unset
Entry ==
    /\ pc = "start"
    /\ calls = 0
    /\ branches = << >>
    /\ resolved = << >>
    /\ documents = << >>
    /\ keep_sep = Unbound
    /\ splitter_calls = 0
    /\ split_docs = << >>
    /\ chunk_doc = << >>
    /\ oracle_data = << >>
    /\ uuid_ctr = 0
    /\ error = NoError
    /\ input0 = data_inputs

Init ==
    /\ data_inputs \in InputPool
    /\ separator = << "." >>
    /\ text_key \in TextKeys
    /\ keep_separator \in KeepSeparatorOptions
    /\ \E c \in ChunkConfigs : chunk_size = c[1] /\ chunk_overlap = c[2]
    /\ Entry

\* every separator string up to MaxSepLen, on one fixed record whose text
\* has a carriage return for the splitter to strip
SepInit ==
    /\ data_inputs = Data("text", ("text" :> << "a", ".", CR, "b" >>))
    /\ separator \in SeqsUpTo(SepChars, MaxSepLen)
    /\ text_key = "text"
    /\ keep_separator = "False"
    /\ chunk_size = 1
    /\ chunk_overlap = 0
    /\ Entry

----------------------------------------------------------------------------
(* Steps of split_text *)

config == << separator, text_key, keep_separator, chunk_size, chunk_overlap,
             input0 >>

Fail(exc, msg) ==
    /\ pc' = "error"
    /\ error' = Raised(exc, msg)

\* lines 126-128: an activation of split_text_base starts and resolves the
\* separator
split_text_base_enter ==
    /\ pc = "start"
    /\ calls < MaxCalls
    /\ calls' = calls + 1
    /\ resolved' = ResolveSeparator(separator)
    /\ pc' = "normalize"
    /\ UNCHANGED << data_inputs, config, branches, documents, keep_sep,
                    splitter_calls, split_docs, chunk_doc, oracle_data,
                    uuid_ctr, error >>

\* lines 130-140: a DataFrame input.  to_lc_documents cannot fail on the
\* frames drawn here, so the handler of lines 138-140 is never entered
split_text_base_DataFrame ==
    /\ branches' = Append(branches, "DataFrame")
    /\ IF Len(data_inputs.rows) = 0
       THEN /\ Fail("TypeError", "DataFrame is empty")
            /\ UNCHANGED << data_inputs, documents >>
       ELSE IF text_key \notin data_inputs.columns
       THEN \* the DataFrame.text_key setter rejects an unknown column
            /\ Fail("ValueError", "Text key not found in DataFrame columns")
            /\ UNCHANGED << data_inputs, documents >>
       ELSE /\ data_inputs' = [data_inputs EXCEPT !.text_key = text_key]
            /\ documents' = to_lc_documents(data_inputs')
            /\ pc' = "split"
            /\ UNCHANGED error

\* the Message branch re-entering without replacing data_inputs
split_text_base_Message_no_wrap ==
    /\ branches' = Append(branches, "Message")
    /\ pc' = "start"
    /\ UNCHANGED << data_inputs, documents, error >>

\* lines 141-143: a Message input is replaced by a one-element list and
\* split_text_base is entered again
split_text_base_Message ==
    /\ branches' = Append(branches, "Message")
    /\ data_inputs' = List(<< to_data(data_inputs) >>)
    /\ pc' = "start"
    /\ UNCHANGED << documents, error >>

\* lines 144-161: None, a single Data or a list
split_text_base_else ==
    /\ branches' = Append(branches, "other")
    /\ IF ~TruthyInput(data_inputs)
       THEN /\ Fail("TypeError", "No data inputs provided")
            /\ UNCHANGED << data_inputs, documents >>
       ELSE IF IsData(data_inputs)
       THEN /\ data_inputs' = [data_inputs EXCEPT !.text_key = text_key]
            /\ documents' = << to_lc_document(data_inputs') >>
            /\ pc' = "split"
            /\ UNCHANGED error
       ELSE IF ListDocuments(data_inputs.items) = << >>
       THEN /\ Fail("TypeError", "No valid Data inputs found")
            /\ UNCHANGED << data_inputs, documents >>
       ELSE /\ documents' = ListDocuments(data_inputs.items)
            /\ pc' = "split"
            /\ UNCHANGED << data_inputs, error >>

\* lines 130-161
split_text_base_inputs ==
    /\ pc = "normalize"
    /\ CASE data_inputs.type = "DataFrame" -> split_text_base_DataFrame
         [] data_inputs.type = "Message" -> split_text_base_Message
         [] OTHER -> split_text_base_else
    /\ UNCHANGED << config, calls, resolved, keep_sep, splitter_calls,
                    split_docs, chunk_doc, oracle_data, uuid_ctr >>

\* lines 162-181: the splitter is built and run; any exception becomes a
\* TypeError
split_text_base_split ==
    /\ pc = "split"
    /\ keep_sep' = KeepSep(keep_separator)
    /\ splitter_calls' = splitter_calls + 1
    /\ IF SplitterRejects(chunk_size, chunk_overlap)
       THEN /\ Fail("TypeError", "Error splitting text")
            /\ UNCHANGED << split_docs, chunk_doc >>
       ELSE /\ split_docs' = split_documents(documents, resolved, keep_sep',
                                            chunk_size, chunk_overlap)
            /\ chunk_doc' = ChunkOrigins(documents, resolved, keep_sep',
                                         chunk_size, chunk_overlap)
            /\ pc' = "map"
            /\ UNCHANGED error
    /\ UNCHANGED << data_inputs, config, calls, branches, resolved, documents,
                    oracle_data, uuid_ctr >>

\* lines 193-195: the chunks are mapped to records and returned
split_text ==
    /\ pc = "map"
    /\ oracle_data' = _docs_to_oracle_data(split_docs, uuid_ctr)
    /\ split_docs' = DocsAfterMapping(split_docs, uuid_ctr)
    /\ uuid_ctr' = uuid_ctr + 2 * Len(split_docs)
    /\ pc' = "done"
    /\ UNCHANGED << data_inputs, config, calls, branches, resolved, documents,
                    keep_sep, splitter_calls, chunk_doc, error >>

Next ==
    \/ split_text_base_enter
    \/ split_text_base_inputs
    \/ split_text_base_split
    \/ split_text

Spec == Init /\ [][Next]_vars

SepSpec == SepInit /\ [][Next]_vars

----------------------------------------------------------------------------
(* Properties *)

Returned == pc = "done"

\* the position of chunk k within the chunks of its own document, from 0
IndexInDocument(k) ==
    Cardinality({j \in 1..(k - 1) : chunk_doc[j] = chunk_doc[k]})

ChunkIndex(k) == oracle_data[k].source_metadata["chunk_index"]
SourceId(k) == oracle_data[k].source_metadata["source_id"]

\* C1: in the returned records, chunk_index counts from 0 within each
\* source document's group of chunks, so the first chunk of every document
\* has chunk_index 0.
C1_ChunkIndexPerDocument ==
    Returned =>
        \A k \in 1..Len(oracle_data) : ChunkIndex(k) = IndexInDocument(k)

\* C2: in the returned records, a source_id the chunk's metadata already
\* carried is reused, and otherwise chunks carry the same source_id exactly
\* when they come from the same document.
C2_SourceIdPerDocument ==
    Returned =>
        /\ \A k \in 1..Len(oracle_data) :
              "source_id" \in DOMAIN documents[chunk_doc[k]].metadata
                 => SourceId(k) = documents[chunk_doc[k]].metadata["source_id"]
        /\ \A j, k \in 1..Len(oracle_data) :
              (chunk_doc[j] = chunk_doc[k]) <=> (SourceId(j) = SourceId(k))

\* the chunks of all documents, in document order then chunk order, cut
\* document by document
ChunksInOrder ==
    Concat([d \in 1..Len(documents) |->
               splitter_split_text(documents[d].page_content, resolved, keep_sep,
                         chunk_size, chunk_overlap)])

\* C3: a successful invocation returns exactly one record per chunk: as many
\* records as the documents have chunks in total, the i-th record carrying
\* the text of the i-th chunk in document order then chunk order.
C3_OneRecordPerChunk ==
    Returned =>
        /\ Len(oracle_data) = Len(ChunksInOrder)
        /\ \A i \in 1..Len(oracle_data) : oracle_data[i].text = ChunksInOrder[i]

C3_Witness ==
    /\ Returned
    /\ Len(documents) >= 2
    /\ \A d \in 1..Len(documents) : \E k \in 1..Len(chunk_doc) : chunk_doc[k] = d
    /\ Len(oracle_data) > Len(documents)

\* the record carries a source_id drawn during this invocation
GeneratedSourceId(k) == SourceId(k)[1] = "uuid4"

\* C4: the ids of the returned records are pairwise distinct, also for
\* chunks with equal text and metadata, and no record id equals a source_id
\* generated in the same invocation.
C4_FreshIds ==
    Returned =>
        /\ \A j, k \in 1..Len(oracle_data) :
              j # k => oracle_data[j].id # oracle_data[k].id
        /\ \A j, k \in 1..Len(oracle_data) :
              GeneratedSourceId(k) => oracle_data[j].id # SourceId(k)

C4_Witness ==
    /\ Returned
    /\ \E j, k \in 1..Len(oracle_data) :
          /\ j # k
          /\ oracle_data[j].text = oracle_data[k].text
          /\ documents[chunk_doc[j]].metadata = documents[chunk_doc[k]].metadata
          /\ GeneratedSourceId(j)
          /\ GeneratedSourceId(k)

EmptyTabular(x) == x.type = "DataFrame" /\ Len(x.rows) = 0
AbsentOrEmpty(x) == x.type = "NoneType" \/ (x.type = "list" /\ Len(x.items) = 0)

\* C5: a DataFrame with zero rows ends in the "DataFrame is empty" error and
\* an absent or empty non-tabular input in the "No data inputs provided"
\* error; the two are told apart, and in both cases the splitter is never
\* called and no record is returned.
C5_EmptyInputErrors ==
    /\ (EmptyTabular(input0) \/ AbsentOrEmpty(input0)) =>
          /\ pc \in {"start", "normalize", "error"}
          /\ splitter_calls = 0
          /\ split_docs = << >>
          /\ oracle_data = << >>
    /\ (EmptyTabular(input0) /\ pc \notin {"start", "normalize"}) =>
          error = Raised("TypeError", "DataFrame is empty")
    /\ (AbsentOrEmpty(input0) /\ pc \notin {"start", "normalize"}) =>
          error = Raised("TypeError", "No data inputs provided")
    /\ Raised("TypeError", "DataFrame is empty")
          # Raised("TypeError", "No data inputs provided")

C5_Witness ==
    /\ input0 = List(<< >>)
    /\ pc = "error"
    /\ error.msg = "No data inputs provided"

\* an element of a list input that is no structured record
InvalidItem(x) == ~IsData(x)

\* C6: a list input with at least one element that is no valid structured
\* record (here: no Data at all, alone or mixed with valid records) never
\* gets past input normalisation: it is not split and returns no records.
C6_InvalidElementFails ==
    (input0.type = "list" /\ \E i \in 1..Len(input0.items) : InvalidItem(input0.items[i]))
        => pc \notin {"split", "map", "done"}

StringOver(S, s) == \A i \in 1..Len(s) : s[i] \in S

\* C7: once resolved, the separator "/n" is a single newline, "/t" a single
\* tab and backslash-n a single newline; every input string, the empty one
\* included, resolves to a string and raises nothing.
C7_SeparatorResolution ==
    pc # "start" =>
        /\ separator = << "/", "n" >> => resolved = << NL >>
        /\ separator = << "/", "t" >> => resolved = << TAB >>
        /\ separator = << BSL, "n" >> => resolved = << NL >>
        /\ StringOver(SepChars \cup {NL, TAB}, resolved)
        /\ Len(resolved) <= Len(separator)
        /\ pc = "normalize" => error = NoError

C7_Witness ==
    /\ pc = "normalize"
    /\ separator = << "/", "t" >>
    /\ resolved = << TAB >>

\* the input records the documents are extracted from, in order
ExtractedFrom ==
    CASE data_inputs.type = "DataFrame" ->
            [i \in 1..Len(data_inputs.rows) |->
                Data(data_inputs.text_key, data_inputs.rows[i])]
      [] data_inputs.type = "Data" -> << data_inputs >>
      [] data_inputs.type = "list" -> SelectSeq(data_inputs.items, IsData)
      [] OTHER -> << >>

\* C8: when documents have been extracted, every input record (or the
\* collection) carries the configured text_key and every document's text is
\* the field the configured text_key names.
C8_TextKeyApplied ==
    pc = "split" =>
        /\ Len(documents) = Len(ExtractedFrom)
        /\ \A i \in 1..Len(documents) :
              /\ ExtractedFrom[i].text_key = text_key
              /\ documents[i].page_content =
                    DictGet(ExtractedFrom[i].data, text_key, DefaultValue)

\* C9: a Message input is replaced by the one-element list holding the
\* message converted to a record, split_text_base is entered exactly once
\* more and takes the list branch, and the chunks are those of that
\* one-element list.
C9_MessageRecursion ==
    input0.type = "Message" =>
        /\ calls <= 2
        /\ pc \in {"split", "map", "done", "error"} =>
              /\ calls = 2
              /\ branches = << "Message", "other" >>
              /\ data_inputs = List(<< Data("text", input0.data) >>)
              /\ documents = ListDocuments(<< Data("text", input0.data) >>)
        /\ pc = "map" =>
              split_docs = split_documents(ListDocuments(<< Data("text", input0.data) >>),
                                          ResolveSeparator(separator),
                                          KeepSep(keep_separator),
                                          chunk_size, chunk_overlap)
        /\ pc = "error" => error = Raised("TypeError", "Error splitting text")

C9_Witness ==
    /\ input0.type = "Message"
    /\ Returned
    /\ calls = 2
    /\ Len(oracle_data) = 2

\* C10: the splitter is handed False for "False", True for "True", and a
\* value it treats as keep-at-chunk-start for "Start" and as
\* keep-at-chunk-end for "End".
C10_KeepSeparatorPolicies ==
    splitter_calls > 0 =>
        /\ keep_separator = "False" => keep_sep = PyFalse
        /\ keep_separator = "True" => keep_sep = PyTrue
        /\ keep_separator = "Start" => SplitterPolicy(keep_sep) = "start"
        /\ keep_separator = "End" => SplitterPolicy(keep_sep) = "end"

=============================================================================
